---- MODULE Spec2Model ----
(***************************************************************************)
(* Dense recursive polynomials of sympy/polys/densebasic.py.               *)
(*                                                                         *)
(* A polynomial of level u is a nested sequence: level 0 is a sequence of  *)
(* coefficients, leading coefficient first (Python index 0 is TLA+ index   *)
(* 1); level u > 0 is a sequence of level u-1 polynomials.  A sparse map   *)
(* (Python dict) is a function whose domain is a set of exponent tuples.   *)
(* A coefficient domain K is the record [gens |-> g]: g = 0 is ZZ (Python  *)
(* integers), g > 0 is the polynomial ring ZZ[x_1..x_g] whose elements are *)
(* held by their dense form of level g-1.                                  *)
(*                                                                         *)
(* A call that may raise returns an outcome record [exc, val]: exc is      *)
(* "none" and val the returned value, or exc names the Python exception.   *)
(***************************************************************************)
EXTENDS Integers, Sequences, FiniteSets, TLC

VARIABLES K, u, f, pc, arg, mid, out

vars == <<K, u, f, pc, arg, mid, out>>

(***************************************************************************)
(* Bounds of the model.                                                    *)
(***************************************************************************)
\* largest coefficient magnitude of the inputs
MaxCoef == 1
\* largest degree of a univariate (level 0) input
MaxDeg0 == 4
\* largest level of a multivariate input
MaxU == 2
\* largest number of nonzero terms of a multivariate input
MaxTerms == 2
\* largest sum of all exponents over the terms of a multivariate input
MaxWeight == 3
\* largest inflation factor tried
MaxFactor == 3

(***************************************************************************)
(* Python values and control flow.                                         *)
(***************************************************************************)
Return(v) == [exc |-> "none", val |-> v]

Raise(e) == [exc |-> e, val |-> <<>>]

Max(S) == CHOOSE x \in S : \A y \in S : y <= x

Min(S) == CHOOSE x \in S : \A y \in S : x <= y

RECURSIVE igcd(_, _)
igcd(a, b) == IF b = 0 THEN a ELSE igcd(b, a % b)

\* Python's s[a:b] on a sequence: a negative index counts from the end, and
\* both ends are clipped to the sequence.
PySlice(s, a, b) ==
  LET n  == Len(s)
      a1 == IF a < 0 THEN a + n ELSE a
      b1 == IF b < 0 THEN b + n ELSE b
      lo == IF a1 < 0 THEN 0 ELSE IF a1 > n THEN n ELSE a1
      hi == IF b1 < 0 THEN 0 ELSE IF b1 > n THEN n ELSE b1
  IN  IF lo >= hi THEN <<>> ELSE SubSeq(s, lo + 1, hi)

\* Python's order on tuples of integers: lexicographic, a proper prefix first.
RECURSIVE TupleLess(_, _)
TupleLess(a, b) ==
  IF Len(b) = 0 THEN FALSE
  ELSE IF Len(a) = 0 THEN TRUE
  ELSE IF a[1] # b[1] THEN a[1] < b[1]
  ELSE TupleLess(Tail(a), Tail(b))

TupleMax(S) == CHOOSE x \in S : \A y \in S : y = x \/ TupleLess(y, x)

EmptyDict == [monom \in {} |-> 0]

(***************************************************************************)
(* The coefficient domain K.                                               *)
(***************************************************************************)
ZZ == [gens |-> 0]

PolyRing(g) == [gens |-> g]

RECURSIVE dmp_zero(_)
dmp_zero(v) == IF v <= 0 THEN <<>> ELSE <<dmp_zero(v - 1)>>

RECURSIVE dmp_zero_p(_, _)
dmp_zero_p(p, v) ==
  IF v > 0
  THEN IF Len(p) # 1 THEN FALSE ELSE dmp_zero_p(p[1], v - 1)
  ELSE Len(p) = 0

KZero(D) == IF D.gens = 0 THEN 0 ELSE dmp_zero(D.gens - 1)

\* Python's truth value of a coefficient c of D: c is not the zero of D.
Truth(c, D) == IF D.gens = 0 THEN c # 0 ELSE ~dmp_zero_p(c, D.gens - 1)

(***************************************************************************)
(* Degree and stripping.                                                   *)
(***************************************************************************)
dup_degree(p) == Len(p) - 1

dmp_degree(p, v) == IF dmp_zero_p(p, v) THEN -1 ELSE Len(p) - 1

dup_strip(p, D) ==
  IF Len(p) = 0 \/ Truth(p[1], D) THEN p
  ELSE LET i == CHOOSE k \in 0..Len(p) :
                  /\ \A j \in 1..k : ~Truth(p[j], D)
                  /\ (k = Len(p) \/ Truth(p[k + 1], D))
       IN  SubSeq(p, i + 1, Len(p))

\* mutant: at most one zero entry is dropped from the front
dmp_strip_once(p, v, D) ==
  IF v = 0 THEN dup_strip(p, D)
  ELSE IF dmp_zero_p(p, v) THEN p
  ELSE IF Len(p) > 0 /\ dmp_zero_p(p[1], v - 1)
  THEN (IF Len(p) = 1 THEN dmp_zero(v) ELSE Tail(p))
  ELSE p

dmp_strip(p, v, D) ==
  IF v = 0 THEN dup_strip(p, D)
  ELSE IF dmp_zero_p(p, v) THEN p
  ELSE LET i == CHOOSE k \in 0..Len(p) :
                  /\ \A j \in 1..k : dmp_zero_p(p[j], v - 1)
                  /\ (k = Len(p) \/ ~dmp_zero_p(p[k + 1], v - 1))
       IN  IF i = Len(p) THEN dmp_zero(v) ELSE SubSeq(p, i + 1, Len(p))

(***************************************************************************)
(* Dense form <-> sparse map.                                              *)
(***************************************************************************)
dup_from_dict(d, D) ==
  IF DOMAIN d = {} THEN Return(<<>>)
  ELSE LET n == TupleMax(DOMAIN d)
       IN  IF Len(n) # 1 THEN Raise("ValueError")
           ELSE LET h == [i \in 1..(n[1] + 1) |->
                            IF <<n[1] + 1 - i>> \in DOMAIN d
                            THEN d[<<n[1] + 1 - i>>] ELSE KZero(D)]
                IN  Return(dup_strip(h, D))

\* mutant: a missing head is filled with an empty list at every level
DmpFromDictFillFlat(v) == <<>>

\* the entry appended for an exponent no term has
DmpFromDictFill(v) == dmp_zero(v)

RECURSIVE dmp_from_dict(_, _, _)
dmp_from_dict(d, v, D) ==
  IF v = 0 THEN dup_from_dict(d, D)
  ELSE IF DOMAIN d = {} THEN Return(dmp_zero(v))
  ELSE IF \E monom \in DOMAIN d : Len(monom) = 0 THEN Raise("IndexError")
  ELSE LET heads  == {monom[1] : monom \in DOMAIN d}
           coeffs == [head \in heads |->
                        [tail \in {Tail(m) : m \in {x \in DOMAIN d : x[1] = head}}
                           |-> d[<<head>> \o tail]]]
           n      == Max(heads)
           h      == [i \in 1..(n + 1) |->
                        IF (n + 1 - i) \in heads
                        THEN dmp_from_dict(coeffs[n + 1 - i], v - 1, D)
                        ELSE Return(DmpFromDictFill(v - 1))]
           bad    == {i \in 1..(n + 1) : h[i].exc # "none"}
       IN  IF bad # {} THEN Raise(h[Min(bad)].exc)
           ELSE Return(dmp_strip([i \in 1..(n + 1) |-> h[i].val], v, D))

dup_to_dict(p, D, zero) ==
  IF Len(p) = 0 /\ zero THEN (<<0>> :> KZero(D))
  ELSE LET n == dup_degree(p)
       IN  [monom \in {<<k>> : k \in {j \in 0..n : Truth(p[n - j + 1], D)}}
              |-> p[n - monom[1] + 1]]

RECURSIVE dmp_to_dict(_, _, _, _)
dmp_to_dict(p, v, D, zero) ==
  IF v = 0 THEN dup_to_dict(p, D, zero)
  ELSE IF dmp_zero_p(p, v) /\ zero THEN ([i \in 1..(v + 1) |-> 0] :> KZero(D))
  ELSE LET n    == dmp_degree(p, v)
           h(k) == dmp_to_dict(p[n - k + 1], v - 1, D, FALSE)
       IN  [monom \in UNION {{<<k>> \o e : e \in DOMAIN h(k)} : k \in 0..n}
              |-> h(monom[1])[Tail(monom)]]

(***************************************************************************)
(* The inputs: polynomials in normal form.                                 *)
(***************************************************************************)
Coefs == (-MaxCoef)..MaxCoef

\* normal form: no leading zero at any level, zero only as dmp_zero
RECURSIVE Normalized(_, _, _)
Normalized(p, v, D) ==
  IF v = 0 THEN Len(p) = 0 \/ Truth(p[1], D)
  ELSE \/ p = dmp_zero(v)
       \/ /\ Len(p) >= 1
          /\ ~dmp_zero_p(p[1], v - 1)
          /\ \A i \in 1..Len(p) : Normalized(p[i], v - 1, D)

UniPolys ==
  {<<>>} \cup {s \in UNION {[1..n -> Coefs] : n \in 1..(MaxDeg0 + 1)} : s[1] # 0}

RECURSIVE SumSeq(_)
SumSeq(s) == IF Len(s) = 0 THEN 0 ELSE s[1] + SumSeq(Tail(s))

RECURSIVE SumOver(_, _)
SumOver(S, g) ==
  IF S = {} THEN 0 ELSE LET x == CHOOSE y \in S : TRUE IN g[x] + SumOver(S \ {x}, g)

\* the exponent tuples of v+1 variables of total degree at most w
Monoms(v, w) == {m \in [1..(v + 1) -> 0..w] : SumSeq(m) <= w}

\* the sets of at most t exponent tuples whose degrees sum to at most w
RECURSIVE TermSets(_, _, _)
TermSets(v, t, w) ==
  IF t = 0 THEN {{}}
  ELSE LET prev == TermSets(v, t - 1, w)
           deg  == [m \in Monoms(v, w) |-> SumSeq(m)]
       IN  prev \cup
           {x[1] \cup {x[2]} :
              x \in {y \in prev \X Monoms(v, w) :
                       /\ y[2] \notin y[1]
                       /\ SumOver(y[1], deg) + deg[y[2]] <= w}}

\* the dense form of the terms d, built top down
RECURSIVE Dense(_, _, _)
Dense(d, v, D) ==
  IF v = -1 THEN (IF DOMAIN d = {} THEN KZero(D) ELSE d[<<>>])
  ELSE IF DOMAIN d = {} THEN dmp_zero(v)
  ELSE LET n == Max({m[1] : m \in DOMAIN d})
           sub(k) == [tl \in {Tail(m) : m \in {x \in DOMAIN d : x[1] = k}}
                        |-> d[<<k>> \o tl]]
       IN  [i \in 1..(n + 1) |-> Dense(sub(n + 1 - i), v - 1, D)]

\* the normal forms of level v with at most t terms of total degree at most w
\* and coefficients drawn from E
Gen(v, t, w, E, D) ==
  {Dense(d, v, D) : d \in UNION {[S -> E] : S \in TermSets(v, t, w)}}

Polys(v) ==
  IF v = 0 THEN UniPolys ELSE Gen(v, MaxTerms, MaxWeight, Coefs \ {0}, ZZ)

InitPoly ==
  /\ K = ZZ
  /\ u \in 0..MaxU
  /\ f \in Polys(u)
  /\ pc = "start"
  /\ arg = <<>>
  /\ mid = <<>>
  /\ out = <<>>

(***************************************************************************)
(* Sparse round trip.                                                      *)
(***************************************************************************)
ToDict ==
  /\ pc = "start"
  /\ mid' = dmp_to_dict(f, u, K, FALSE)
  /\ pc' = "to_dict"
  /\ UNCHANGED <<K, u, f, arg, out>>

FromDict ==
  /\ pc = "to_dict"
  /\ out' = dmp_from_dict(mid, u, K)
  /\ pc' = "from_dict"
  /\ UNCHANGED <<K, u, f, arg, mid>>

NextDict == ToDict \/ FromDict

SpecDict == InitPoly /\ [][NextDict]_vars

\* every input of the model is in normal form
InputsNormalized == pc = "start" => Normalized(f, u, K)

\* C1: for every normalized f of level u, dmp_from_dict(dmp_to_dict(f, u), u, K)
\* returns f, which is also dmp_strip(f, u); the zero polynomial maps to the
\* empty map and back to dmp_zero(u).
C1_RoundTrip ==
  /\ pc \in {"to_dict", "from_dict"} =>
       (dmp_zero_p(f, u) <=> DOMAIN mid = {})
  /\ pc = "from_dict" =>
       /\ out.exc = "none"
       /\ out.val = f
       /\ out.val = dmp_strip(f, u, K)
       /\ (DOMAIN mid = {} => out.val = dmp_zero(u))

C1_Witness ==
  /\ pc = "from_dict"
  /\ u = 2
  /\ Cardinality(DOMAIN mid) = 2
  /\ Len(f) = 3
  /\ dmp_zero_p(f[2], 1)
  /\ out.val = f

(***************************************************************************)
(* Variable swap.                                                          *)
(***************************************************************************)
dmp_swap(p, i, j, v, D) ==
  IF i < 0 \/ j < 0 \/ i > v \/ j > v THEN Raise("IndexError")
  ELSE IF i = j THEN Return(p)
  ELSE LET F == dmp_to_dict(p, v, D, FALSE)
           key(exp) == PySlice(exp, 0, i) \o <<exp[j + 1]>> \o
                       PySlice(exp, i + 1, j) \o
                       <<exp[i + 1]>> \o PySlice(exp, j + 1, Len(exp))
           H == [k \in {key(exp) : exp \in DOMAIN F} |->
                   F[CHOOSE exp \in DOMAIN F : key(exp) = k]]
       IN  dmp_from_dict(H, v, D)

Swap ==
  /\ pc = "start"
  /\ \E i \in -1..(u + 1), j \in -1..(u + 1) :
       /\ arg' = [i |-> i, j |-> j]
       /\ mid' = dmp_swap(f, i, j, u, K)
  /\ pc' = "swap"
  /\ UNCHANGED <<K, u, f, out>>

SwapBack ==
  /\ pc = "swap"
  /\ mid.exc = "none"
  /\ out' = dmp_swap(mid.val, arg.i, arg.j, u, K)
  /\ pc' = "swap_back"
  /\ UNCHANGED <<K, u, f, arg, mid>>

NextSwap == Swap \/ SwapBack

SpecSwap == InitPoly /\ [][NextSwap]_vars

\* the exponent tuple exp with its entries i and j exchanged
Exchanged(exp, i, j) ==
  [k \in 1..Len(exp) |->
     IF k = i + 1 THEN exp[j + 1] ELSE IF k = j + 1 THEN exp[i + 1] ELSE exp[k]]

\* C2: for every normalized f of level u and all i, j in 0..u, in either
\* order, dmp_swap(f, i, j, u, K) returns normally, its terms are the terms of
\* f with the entries i and j of every exponent tuple exchanged, and swapping
\* again returns f.
C2_SwapSelfInverse ==
  /\ (pc \in {"swap", "swap_back"} /\ arg.i \in 0..u /\ arg.j \in 0..u) =>
       /\ mid.exc = "none"
       /\ LET F == dmp_to_dict(f, u, K, FALSE)
              G == dmp_to_dict(mid.val, u, K, FALSE)
          IN  /\ DOMAIN G = {Exchanged(exp, arg.i, arg.j) : exp \in DOMAIN F}
              /\ \A exp \in DOMAIN F : G[Exchanged(exp, arg.i, arg.j)] = F[exp]
  /\ pc = "swap_back" => (out.exc = "none" /\ out.val = f)

\* a swap with i > j of a nonzero polynomial has been made
C2_Witness ==
  /\ pc = "swap"
  /\ arg.i \in 0..u /\ arg.j \in 0..u /\ arg.i > arg.j
  /\ ~dmp_zero_p(f, u)
  /\ mid.exc = "ValueError"

\* the part of C2 the code keeps: the claim for i <= j
C2_SwapOrdered ==
  /\ (pc \in {"swap", "swap_back"} /\ arg.i \in 0..u /\ arg.j \in 0..u
        /\ arg.i <= arg.j) =>
       /\ mid.exc = "none"
       /\ LET F == dmp_to_dict(f, u, K, FALSE)
              G == dmp_to_dict(mid.val, u, K, FALSE)
          IN  /\ DOMAIN G = {Exchanged(exp, arg.i, arg.j) : exp \in DOMAIN F}
              /\ \A exp \in DOMAIN F : G[Exchanged(exp, arg.i, arg.j)] = F[exp]
  /\ (pc = "swap_back" /\ arg.i <= arg.j) => (out.exc = "none" /\ out.val = f)

(***************************************************************************)
(* Slicing.                                                                *)
(***************************************************************************)
dup_slice(p, m, n, D) ==
  LET k  == Len(p)
      M  == k - m
      N  == k - n
      q  == PySlice(p, N, M)
  IN  IF Len(q) = 0 THEN <<>> ELSE q \o [i \in 1..m |-> KZero(D)]

dmp_slice_in(p, m, n, j, v, D) ==
  IF j < 0 \/ j > v THEN Raise("IndexError")
  ELSE IF v = 0 THEN Return(dup_slice(p, m, n, D))
  ELSE LET F == dmp_to_dict(p, v, D, FALSE)
           key(monom) ==
             IF monom[j + 1] < m \/ monom[j + 1] >= n
             THEN PySlice(monom, 0, j) \o <<0>> \o PySlice(monom, j + 1, Len(monom))
             ELSE monom
           g == [k \in {key(monom) : monom \in DOMAIN F} |->
                   SumOver({monom \in DOMAIN F : key(monom) = k}, F)]
       IN  dmp_from_dict(g, v, D)

dmp_slice(p, m, n, v, D) == dmp_slice_in(p, m, n, 0, v, D)

\* the largest slice end tried: past the longest input
SliceMax == MaxDeg0 + 2

DupSlice ==
  /\ pc = "start"
  /\ u = 0
  /\ \E m \in 0..SliceMax, n \in 0..SliceMax :
       /\ m <= n
       /\ arg' = [m |-> m, n |-> n, j |-> 0]
       /\ out' = Return(dup_slice(f, m, n, K))
  /\ pc' = "dup_slice"
  /\ UNCHANGED <<K, u, f, mid>>

SliceIn ==
  /\ pc = "start"
  /\ \E m \in 0..SliceMax, n \in 0..SliceMax, j \in -1..(u + 1) :
       /\ m <= n
       /\ arg' = [m |-> m, n |-> n, j |-> j]
       /\ out' = dmp_slice_in(f, m, n, j, u, K)
  /\ pc' = "slice_in"
  /\ UNCHANGED <<K, u, f, mid>>

NextSlice == DupSlice \/ SliceIn

SpecSlice == InitPoly /\ [][NextSlice]_vars

\* the terms of the sparse map F whose exponent of variable j is in [m, n)
TermsInRange(F, j, m, n) ==
  [monom \in {e \in DOMAIN F : m <= e[j + 1] /\ e[j + 1] < n} |-> F[monom]]

\* C3: for every normalized univariate f and 0 <= m <= n, also past len(f),
\* the nonzero terms of dup_slice(f, m, n, K) are exactly the nonzero terms of
\* f with exponent in [m, n), coefficients and exponents unchanged.
C3_DupSliceExact ==
  pc = "dup_slice" =>
    dup_to_dict(out.val, K, FALSE)
      = TermsInRange(dup_to_dict(f, K, FALSE), 0, arg.m, arg.n)

\* a slice whose end is past the length of a nonzero polynomial has been taken
C3_Witness ==
  /\ pc = "dup_slice"
  /\ f = <<1, 1, 1>>
  /\ arg.m = 0 /\ arg.n = 5
  /\ out.val = <<1, 1>>

\* the part of C3 the code keeps: the claim for n <= len(f)
C3_DupSliceWithin ==
  (pc = "dup_slice" /\ arg.n <= Len(f)) =>
    dup_to_dict(out.val, K, FALSE)
      = TermsInRange(dup_to_dict(f, K, FALSE), 0, arg.m, arg.n)

\* C4: for every normalized f of level u >= 1, every j in 0..u and
\* 0 <= m <= n, the sparse map of dmp_slice_in(f, m, n, j, u, K) is the sparse
\* map of f restricted to the terms whose exponent of variable j is in [m, n);
\* the other terms contribute nothing, and the degree in variable j is at most
\* n - 1.
C4_SliceInExact ==
  (pc = "slice_in" /\ u >= 1 /\ arg.j \in 0..u) =>
    /\ out.exc = "none"
    /\ LET G == dmp_to_dict(out.val, u, K, FALSE)
       IN  /\ G = TermsInRange(dmp_to_dict(f, u, K, FALSE), arg.j, arg.m, arg.n)
           /\ \A e \in DOMAIN G : e[arg.j + 1] <= arg.n - 1

\* a term outside the range has been folded onto exponent 0 of variable j
C4_Witness ==
  /\ pc = "slice_in"
  /\ u = 1
  /\ f = << <<1>>, <<1>> >>
  /\ arg = [m |-> 0, n |-> 1, j |-> 0]
  /\ out = Return(<< <<2>> >>)

(***************************************************************************)
(* Univariate operations.                                                  *)
(***************************************************************************)
poly_TC(p, D) == IF Len(p) = 0 THEN KZero(D) ELSE p[Len(p)]

dup_reverse(p, D) == dup_strip([i \in 1..Len(p) |-> p[Len(p) + 1 - i]], D)

\* the loop of dup_deflate from index i on with the gcd g so far: the gcd of
\* the exponents that carry a nonzero coefficient, left as soon as it is 1
RECURSIVE DeflateLoop(_, _, _, _)
DeflateLoop(p, i, g, D) ==
  IF i = Len(p) THEN g
  ELSE IF ~Truth(p[Len(p) - i], D) THEN DeflateLoop(p, i + 1, g, D)
  ELSE IF igcd(g, i) = 1 THEN 1
  ELSE DeflateLoop(p, i + 1, igcd(g, i), D)

\* mutant: m zeros, not m - 1, between two coefficients
dup_inflate_wide(p, m, D) ==
  IF m <= 0 THEN Raise("IndexError")
  ELSE IF m = 1 \/ Len(p) = 0 THEN Return(p)
  ELSE Return([i \in 1..((Len(p) - 1) * (m + 1) + 1) |->
                 IF (i - 1) % (m + 1) = 0 THEN p[((i - 1) \div (m + 1)) + 1]
                 ELSE KZero(D)])

\* Python's p[::g]
PyStride(p, g) == [k \in 1..(((Len(p) - 1) \div g) + 1) |-> p[(k - 1) * g + 1]]

dup_deflate(p, D) ==
  IF dup_degree(p) <= 0 THEN Return(<<1, p>>)
  ELSE LET g == DeflateLoop(p, 0, 0, D)
       IN  IF g = 1 THEN Return(<<1, p>>)
           ELSE IF g = 0 THEN Raise("ValueError")
           ELSE Return(<<g, PyStride(p, g)>>)

dup_inflate(p, m, D) ==
  IF m <= 0 THEN Raise("IndexError")
  ELSE IF m = 1 \/ Len(p) = 0 THEN Return(p)
  ELSE Return([i \in 1..((Len(p) - 1) * m + 1) |->
                 IF (i - 1) % m = 0 THEN p[((i - 1) \div m) + 1] ELSE KZero(D)])

dup_terms_gcd(p, D) ==
  IF Len(p) = 0 \/ Truth(poly_TC(p, D), D) THEN <<0, p>>
  ELSE LET i == CHOOSE k \in 0..Len(p) :
                  /\ \A j \in 1..k : ~Truth(p[Len(p) + 1 - j], D)
                  /\ (k = Len(p) \/ Truth(p[Len(p) - k], D))
       IN  <<i, PySlice(p, 0, -i)>>

\* the combinators h passed to the pairwise application, by name
CallH(h, a, b, args) ==
  IF h = "add" THEN a + b
  ELSE IF h = "sub" THEN a - b
  ELSE 2 * a + b - args[1]

dup_apply_pairs(p, q, h, args, D) ==
  LET n  == Len(p)
      m  == Len(q)
      q1 == IF n > m THEN [i \in 1..(n - m) |-> KZero(D)] \o q ELSE q
      p1 == IF n < m THEN [i \in 1..(m - n) |-> KZero(D)] \o p ELSE p
  IN  dup_strip([i \in 1..Len(p1) |-> CallH(h, p1[i], q1[i], args)], D)

InitUni ==
  /\ K = ZZ
  /\ u = 0
  /\ f \in UniPolys
  /\ pc = "start"
  /\ arg = <<>>
  /\ mid = <<>>
  /\ out = <<>>

\* every exponent of p as a key, zero coefficients included
AllPositions(p) == [monom \in {<<k>> : k \in 0..(Len(p) - 1)} |-> p[Len(p) - monom[1]]]

DupStrip ==
  /\ pc = "start"
  /\ out' = Return(dup_strip(f, K))
  /\ pc' = "dup_strip"
  /\ UNCHANGED <<K, u, f, arg, mid>>

DupReverse ==
  /\ pc = "start"
  /\ out' = Return(dup_reverse(f, K))
  /\ pc' = "dup_reverse"
  /\ UNCHANGED <<K, u, f, arg, mid>>

DupFromDict ==
  /\ pc = "start"
  /\ \E d \in {dup_to_dict(f, K, FALSE), AllPositions(f), AllPositions(<<0>> \o f)} :
       /\ arg' = d
       /\ out' = dup_from_dict(d, K)
  /\ pc' = "dup_from_dict"
  /\ UNCHANGED <<K, u, f, mid>>

DupDeflate ==
  /\ pc = "start"
  /\ mid' = dup_deflate(f, K)
  /\ pc' = "dup_deflate"
  /\ UNCHANGED <<K, u, f, arg, out>>

DupInflateBack ==
  /\ pc = "dup_deflate"
  /\ mid.exc = "none"
  /\ out' = dup_inflate(mid.val[2], mid.val[1], K)
  /\ pc' = "dup_inflate_back"
  /\ UNCHANGED <<K, u, f, arg, mid>>

DupInflate ==
  /\ pc = "start"
  /\ \E m \in -1..MaxFactor :
       /\ arg' = [m |-> m]
       /\ out' = dup_inflate(f, m, K)
  /\ pc' = "dup_inflate"
  /\ UNCHANGED <<K, u, f, mid>>

DupTermsGcd ==
  /\ pc = "start"
  /\ out' = Return(dup_terms_gcd(f, K))
  /\ pc' = "dup_terms_gcd"
  /\ UNCHANGED <<K, u, f, arg, mid>>

DupApplyPairs ==
  /\ pc = "start"
  /\ \E g \in UniPolys, h \in {"add", "sub"} :
       /\ arg' = [g |-> g, h |-> h]
       /\ out' = Return(dup_apply_pairs(f, g, h, <<>>, K))
  /\ pc' = "dup_apply_pairs"
  /\ UNCHANGED <<K, u, f, mid>>

NextDup ==
  \/ DupStrip
  \/ DupReverse
  \/ DupFromDict
  \/ DupDeflate
  \/ DupInflateBack
  \/ DupInflate
  \/ DupTermsGcd
  \/ DupApplyPairs
  \/ DupSlice

SpecDup == InitUni /\ [][NextDup]_vars

\* the univariate polynomial a call returned
DupResult ==
  IF pc = "dup_deflate" THEN mid.val[2]
  ELSE IF pc = "dup_terms_gcd" THEN out.val[2]
  ELSE out.val

\* the call returned (did not raise)
DupReturned == IF pc = "dup_deflate" THEN mid.exc = "none" ELSE out.exc = "none"

\* C5: for every normalized univariate input and legal argument, the
\* polynomial returned by dup_strip, dup_reverse, dup_from_dict, dup_deflate,
\* dup_inflate, dup_terms_gcd, dup_apply_pairs and dup_slice is normalized:
\* empty, or its first entry is nonzero.
C5_DupNormalized ==
  (pc \in {"dup_strip", "dup_reverse", "dup_from_dict", "dup_deflate",
           "dup_inflate_back", "dup_inflate", "dup_terms_gcd",
           "dup_apply_pairs", "dup_slice"} /\ DupReturned) =>
    Normalized(DupResult, 0, K)

\* a slice that starts at a zero coefficient has been returned
C5_Witness ==
  /\ pc = "dup_slice"
  /\ f = <<1, 0, 1>>
  /\ arg.m = 0 /\ arg.n = 2
  /\ out.val = <<0, 1>>

\* the part of C5 the code keeps: every listed operation but dup_slice
C5_DupNormalizedButSlice ==
  (pc \in {"dup_strip", "dup_reverse", "dup_from_dict", "dup_deflate",
           "dup_inflate_back", "dup_inflate", "dup_terms_gcd",
           "dup_apply_pairs"} /\ DupReturned) =>
    Normalized(DupResult, 0, K)

(***************************************************************************)
(* Univariate deflation and inflation.                                     *)
(***************************************************************************)
NextDeflate == DupDeflate \/ DupInflateBack

SpecDeflate == InitUni /\ [][NextDeflate]_vars

\* the greatest common divisor of a set of naturals that holds a positive one
SetGcd(S) == Max({d \in 1..Max(S) : \A e \in S : e % d = 0})

\* C8: for every normalized univariate f of degree > 0, dup_deflate(f, K)
\* returns (g, h) with g >= 1 the gcd of the exponents of f that carry a
\* nonzero coefficient, h normalized with degree(h) * g = degree(f), and
\* dup_inflate(h, g, K) returns f.
C8_DeflateInflate ==
  /\ (pc \in {"dup_deflate", "dup_inflate_back"} /\ dup_degree(f) > 0) =>
       /\ mid.exc = "none"
       /\ mid.val[1] >= 1
       /\ mid.val[1] = SetGcd({e[1] : e \in DOMAIN dup_to_dict(f, K, FALSE)})
       /\ Normalized(mid.val[2], 0, K)
       /\ dup_degree(mid.val[2]) * mid.val[1] = dup_degree(f)
       /\ \A e \in DOMAIN dup_to_dict(f, K, FALSE) :
            /\ <<e[1] \div mid.val[1]>> \in DOMAIN dup_to_dict(mid.val[2], K, FALSE)
            /\ dup_to_dict(mid.val[2], K, FALSE)[<<e[1] \div mid.val[1]>>]
                 = dup_to_dict(f, K, FALSE)[e]
       /\ Cardinality(DOMAIN dup_to_dict(mid.val[2], K, FALSE))
            = Cardinality(DOMAIN dup_to_dict(f, K, FALSE))
  /\ (pc = "dup_inflate_back" /\ dup_degree(f) > 0) => out = Return(f)

\* x^4 + x^2 - 1 has been deflated by 2 and inflated back
C8_Witness ==
  /\ pc = "dup_inflate_back"
  /\ f = <<1, 0, 1, 0, -1>>
  /\ mid.val = <<2, <<1, 1, -1>>>>
  /\ out.val = f

(***************************************************************************)
(* Excluding and including useless levels.                                 *)
(***************************************************************************)
\* Python's None, and a value c, as the argument c of dmp_ground_p
None == <<>>

Some(c) == <<c>>

\* the loop of dmp_ground_p: f after v peels, unless some level is not a
\* singleton
RECURSIVE GroundPeel(_, _)
GroundPeel(p, v) ==
  IF v > 0
  THEN IF Len(p) # 1 THEN [single |-> FALSE, base |-> <<>>]
       ELSE GroundPeel(p[1], v - 1)
  ELSE [single |-> TRUE, base |-> p]

dmp_ground_p(p, c, v) ==
  IF c # None /\ c[1] = 0 THEN dmp_zero_p(p, v)
  ELSE LET r == GroundPeel(p, v)
       IN  IF ~r.single THEN FALSE
           ELSE IF c = None THEN Len(r.base) <= 1
           ELSE r.base = <<c[1]>>

\* Python's del s[j] and s.insert(j, x) on a list
PyDel(s, j) == SubSeq(s, 1, j) \o SubSeq(s, j + 2, Len(s))

PyInsert(s, j, x) ==
  LET k == IF j > Len(s) THEN Len(s) ELSE j
  IN  SubSeq(s, 1, k) \o <<x>> \o SubSeq(s, k + 1, Len(s))

\* for j in reversed(J): del monom[j], from the last k entries of J on
RECURSIVE DelReversed(_, _, _)
DelReversed(monom, J, k) ==
  IF k = 0 THEN monom ELSE DelReversed(PyDel(monom, J[k]), J, k - 1)

\* for j in J: monom.insert(j, 0), from entry k of J on
RECURSIVE InsertInOrder(_, _, _)
InsertInOrder(monom, J, k) ==
  IF k > Len(J) THEN monom ELSE InsertInOrder(PyInsert(monom, J[k], 0), J, k + 1)

\* the members of a set of integers as an increasing list
RECURSIVE SortedSeq(_)
SortedSeq(S) == IF S = {} THEN <<>> ELSE <<Min(S)>> \o SortedSeq(S \ {Min(S)})

dmp_exclude(p, v, D) ==
  IF v = 0 \/ dmp_ground_p(p, None, v) THEN Return(<<<<>>, p, v>>)
  ELSE LET F == dmp_to_dict(p, v, D, FALSE)
           J == SortedSeq({j \in 0..v : \A monom \in DOMAIN F : monom[j + 1] = 0})
           key(monom) == DelReversed(monom, J, Len(J))
           g == [k \in {key(monom) : monom \in DOMAIN F} |->
                   F[CHOOSE monom \in DOMAIN F : key(monom) = k]]
           r == dmp_from_dict(g, v - Len(J), D)
       IN  IF Len(J) = 0 THEN Return(<<<<>>, p, v>>)
           ELSE IF r.exc # "none" THEN r
           ELSE Return(<<J, r.val, v - Len(J)>>)

\* mutant: the levels are inserted last to first
dmp_include_reversed(p, J, v, D) ==
  IF Len(J) = 0 THEN Return(p)
  ELSE LET F == dmp_to_dict(p, v, D, FALSE)
           R == [i \in 1..Len(J) |-> J[Len(J) + 1 - i]]
           key(monom) == InsertInOrder(monom, R, 1)
           g == [k \in {key(monom) : monom \in DOMAIN F} |->
                   F[CHOOSE monom \in DOMAIN F : key(monom) = k]]
       IN  dmp_from_dict(g, v + Len(J), D)

dmp_include(p, J, v, D) ==
  IF Len(J) = 0 THEN Return(p)
  ELSE LET F == dmp_to_dict(p, v, D, FALSE)
           key(monom) == InsertInOrder(monom, J, 1)
           g == [k \in {key(monom) : monom \in DOMAIN F} |->
                   F[CHOOSE monom \in DOMAIN F : key(monom) = k]]
       IN  dmp_from_dict(g, v + Len(J), D)

Exclude ==
  /\ pc = "start"
  /\ mid' = dmp_exclude(f, u, K)
  /\ pc' = "exclude"
  /\ UNCHANGED <<K, u, f, arg, out>>

IncludeBack ==
  /\ pc = "exclude"
  /\ mid.exc = "none"
  /\ out' = dmp_include(mid.val[2], mid.val[1], mid.val[3], K)
  /\ pc' = "include_back"
  /\ UNCHANGED <<K, u, f, arg, mid>>

NextExclude == Exclude \/ IncludeBack

SpecExclude == InitPoly /\ [][NextExclude]_vars

\* f is a ground constant or zero: every exponent of every term is zero
IsGround(p, v, D) ==
  \A e \in DOMAIN dmp_to_dict(p, v, D, FALSE) : \A k \in 1..(v + 1) : e[k] = 0

\* C9: for every normalized f of level u, dmp_exclude(f, u, K) returns
\* (J, g, v) with v = u - len(J), and dmp_include(g, J, v, K) returns f.  When
\* f is a ground constant or zero, J is empty and g is f; otherwise J is the
\* increasing list of the variables whose exponent is zero in every term of
\* f, and every variable of g has a nonzero exponent in some term of g.
C9_ExcludeInclude ==
  /\ pc \in {"exclude", "include_back"} =>
       /\ mid.exc = "none"
       /\ LET J == mid.val[1]
              g == mid.val[2]
              v == mid.val[3]
              F == dmp_to_dict(f, u, K, FALSE)
          IN  /\ v = u - Len(J)
              /\ v >= 0
              /\ Normalized(g, v, K)
              /\ IsGround(f, u, K) => (J = <<>> /\ g = f)
              /\ ~IsGround(f, u, K) =>
                   /\ \A i \in 1..Len(J) : \A k \in 1..Len(J) : i < k => J[i] < J[k]
                   /\ {J[i] : i \in 1..Len(J)}
                        = {j \in 0..u : \A e \in DOMAIN F : e[j + 1] = 0}
                   /\ \A k \in 0..v :
                        \E e \in DOMAIN dmp_to_dict(g, v, K, FALSE) : e[k + 1] > 0
                   /\ Cardinality(DOMAIN dmp_to_dict(g, v, K, FALSE))
                        = Cardinality(DOMAIN F)
  /\ pc = "include_back" => out = Return(f)

\* x_2 + 1 in three variables has lost its levels 0 and 1 and got them back
C9_Witness ==
  /\ pc = "include_back"
  /\ u = 2
  /\ f = << << <<1, 1>> >> >>
  /\ mid.val = << <<0, 1>>, <<1, 1>>, 0 >>
  /\ out.val = f

(***************************************************************************)
(* Pairwise application.                                                   *)
(***************************************************************************)
dmp_zeros(n, v, D) ==
  IF n = 0 THEN <<>>
  ELSE IF v < 0 THEN [i \in 1..n |-> KZero(D)]
  ELSE [i \in 1..n |-> dmp_zero(v)]

\* mutant: the list of results is returned as it is, not stripped
RECURSIVE dmp_apply_pairs_unstripped(_, _, _, _, _, _)
dmp_apply_pairs_unstripped(p, q, h, args, v, D) ==
  IF v = 0 THEN dup_apply_pairs(p, q, h, args, D)
  ELSE LET n  == Len(p)
           m  == Len(q)
           q1 == IF n > m THEN dmp_zeros(n - m, v - 1, D) \o q ELSE q
           p1 == IF n < m THEN dmp_zeros(m - n, v - 1, D) \o p ELSE p
       IN  [i \in 1..Len(p1) |->
              dmp_apply_pairs_unstripped(p1[i], q1[i], h, args, v - 1, D)]

RECURSIVE dmp_apply_pairs(_, _, _, _, _, _)
dmp_apply_pairs(p, q, h, args, v, D) ==
  IF v = 0 THEN dup_apply_pairs(p, q, h, args, D)
  ELSE LET n  == Len(p)
           m  == Len(q)
           q1 == IF n > m THEN dmp_zeros(n - m, v - 1, D) \o q ELSE q
           p1 == IF n < m THEN dmp_zeros(m - n, v - 1, D) \o p ELSE p
       IN  dmp_strip([i \in 1..Len(p1) |->
                        dmp_apply_pairs(p1[i], q1[i], h, args, v - 1, D)], v, D)

ApplyPairs ==
  /\ pc = "start"
  /\ \E g \in Polys(u) :
       /\ arg' = [g |-> g, h |-> "add"]
       /\ out' = Return(dmp_apply_pairs(f, g, "add", <<>>, u, K))
  /\ pc' = "apply_pairs"
  /\ UNCHANGED <<K, u, f, mid>>

NextApply == ApplyPairs

SpecApply == InitPoly /\ [][NextApply]_vars

\* the coefficient of the exponent tuple e in the sparse map F
CoeffAt(F, e) == IF e \in DOMAIN F THEN F[e] ELSE 0

\* the sparse map of the sum of the polynomials of the sparse maps F and G
SumMap(F, G) ==
  [e \in {x \in DOMAIN F \cup DOMAIN G : CoeffAt(F, x) + CoeffAt(G, x) # 0}
     |-> CoeffAt(F, e) + CoeffAt(G, e)]

\* C10: for every u and normalized f, g of level u, of equal or different
\* degrees at any level, dmp_apply_pairs(f, g, h, (), u, K) with h(a, b) = a + b
\* is the normalized dense form of the polynomial whose coefficient at every
\* exponent tuple is coeff_f + coeff_g; when everything cancels it is
\* dmp_zero(u).
C10_ApplyAddition ==
  pc = "apply_pairs" =>
    LET S == SumMap(dmp_to_dict(f, u, K, FALSE), dmp_to_dict(arg.g, u, K, FALSE))
    IN  /\ out.exc = "none"
        /\ Normalized(out.val, u, K)
        /\ dmp_to_dict(out.val, u, K, FALSE) = S
        /\ (DOMAIN S = {} => out.val = dmp_zero(u))

\* the leading terms of two polynomials of three variables, of different
\* inner degrees, have cancelled
C10_Witness ==
  /\ pc = "apply_pairs"
  /\ u = 2
  /\ f = << << <<1>> >>, << <<1>> >> >>
  /\ arg.g = << << <<-1>> >>, << <<1>>, <<>> >> >>
  /\ out.val = << << <<1>>, <<1>> >> >>

(***************************************************************************)
(* Towers: injecting the generators of K, and ejecting them again.         *)
(* An element of K = ZZ[x_1..x_g] holds the dense form of level g - 1 over *)
(* K.dom of the polynomial it stands for.                                  *)
(***************************************************************************)
MaxGens == 2
MaxTowerWeight == 1

\* len(K.gens)
K_gens(D) == D.gens

\* K.dom
K_dom(D) == ZZ

\* c.to_dict() of an element c of K
to_dict(c, D) == dmp_to_dict(c, K_gens(D) - 1, K_dom(D), FALSE)

\* K(c) of a sparse map c
K_new(c, D) == dmp_from_dict(c, K_gens(D) - 1, K_dom(D))

dmp_inject(p, v, D, front) ==
  LET F == dmp_to_dict(p, v, D, FALSE)
      n == K_gens(D) - 1
      pairs == UNION {{<<f_monom, g_monom>> :
                         g_monom \in DOMAIN to_dict(F[f_monom], D)} :
                      f_monom \in DOMAIN F}
      key(x) == IF front THEN x[2] \o x[1] ELSE x[1] \o x[2]
      h == [k \in {key(x) : x \in pairs} |->
              LET x == CHOOSE y \in pairs : key(y) = k
              IN  to_dict(F[x[1]], D)[x[2]]]
      w == v + n + 1
      r == dmp_from_dict(h, w, K_dom(D))
  IN  IF r.exc # "none" THEN r ELSE Return(<<r.val, w>>)

dmp_eject(p, v, D, front) ==
  LET F == dmp_to_dict(p, v, K_dom(D), FALSE)
      n == v - K_gens(D) + 1
      f_monom(m) == IF front THEN PySlice(m, n, Len(m)) ELSE PySlice(m, 0, n)
      g_monom(m) == IF front THEN PySlice(m, 0, n) ELSE PySlice(m, n, Len(m))
      keys == {f_monom(m) : m \in DOMAIN F}
      h == [k \in keys |->
              [g \in {g_monom(m) : m \in {x \in DOMAIN F : f_monom(x) = k}} |->
                 F[CHOOSE m \in DOMAIN F : f_monom(m) = k /\ g_monom(m) = g]]]
      c == [k \in keys |-> K_new(h[k], D)]
      bad == {k \in keys : c[k].exc # "none"}
  IN  IF bad # {} THEN Raise(c[CHOOSE k \in bad : TRUE].exc)
      ELSE dmp_from_dict([k \in keys |-> c[k].val], n - 1, D)

\* the non-zero elements of ZZ[x_1..x_g]
Elements(g) ==
  Gen(g - 1, MaxTerms, MaxTowerWeight, Coefs \ {0}, ZZ) \ {dmp_zero(g - 1)}

\* the normal forms of level v over ZZ[x_1..x_g]
Towers(v, g) == Gen(v, MaxTerms, MaxTowerWeight, Elements(g), PolyRing(g))

InitTower ==
  /\ \E g \in 1..MaxGens : K = PolyRing(g)
  /\ u \in 0..MaxU
  /\ f \in Towers(u, K_gens(K))
  /\ pc = "start"
  /\ arg = <<>>
  /\ mid = <<>>
  /\ out = <<>>

Inject ==
  /\ pc = "start"
  /\ \E front \in BOOLEAN :
       /\ arg' = [front |-> front]
       /\ mid' = dmp_inject(f, u, K, front)
  /\ pc' = "inject"
  /\ UNCHANGED <<K, u, f, out>>

EjectBack ==
  /\ pc = "inject"
  /\ mid.exc = "none"
  /\ out' = dmp_eject(mid.val[1], mid.val[2], K, arg.front)
  /\ pc' = "eject"
  /\ UNCHANGED <<K, u, f, arg, mid>>

NextTower == Inject \/ EjectBack

SpecTower == InitTower /\ [][NextTower]_vars

\* C6: for every tower polynomial f of level u over K with g >= 1 generators
\* (u + 1 equal to g or not) and for front FALSE and TRUE, with
\* (h, w) = dmp_inject(f, u, K, front): w = u + g and
\* dmp_eject(h, w, K, front) = f.
C6_InjectEject ==
  /\ pc \in {"inject", "eject"} => mid.exc = "none" /\ mid.val[2] = u + K_gens(K)
  /\ pc = "eject" => out.exc = "none" /\ out.val = f

\* the constant 1 of ZZ[x, y][X] has been injected at the front and ejected:
\* the exponents were split after one entry, not after two
C6_Witness ==
  /\ pc = "eject"
  /\ arg.front
  /\ u = 0
  /\ K = PolyRing(2)
  /\ f = << << <<1>> >> >>
  /\ mid = Return(<< << << <<1>> >> >>, 2 >>)
  /\ out.exc = "ValueError"

\* what does hold: the level always adds up, and ejecting inverts injecting
\* at the back, and at the front when K has as many generators as f has
\* variables
C6_InjectEjectBack ==
  /\ pc \in {"inject", "eject"} => mid.exc = "none" /\ mid.val[2] = u + K_gens(K)
  /\ pc = "eject" /\ (~arg.front \/ K_gens(K) = u + 1) => out.exc = "none" /\ out.val = f
  /\ pc = "eject" /\ arg.front /\ K_gens(K) # u + 1 /\ f # dmp_zero(u) => out.exc # "none"

(***************************************************************************)
(* Level -1: ground values, and the n-th coefficient.                      *)
(* A returned object is either an element of K or a list; the two kinds    *)
(* are told apart by the field "list".                                     *)
(***************************************************************************)
MaxIndex == 6

Scalar(c) == [list |-> FALSE, val |-> <<c>>]

List(s) == [list |-> TRUE, val |-> s]

\* s[i] for a Python index i, negative indices counting from the end
PyIndex(s, i) == IF i < 0 THEN s[Len(s) + i + 1] ELSE s[i + 1]

\* c wrapped in k lists
RECURSIVE Wrap(_, _)
Wrap(c, k) == IF k = 0 THEN c ELSE <<Wrap(c, k - 1)>>

dmp_ground(c, v, D) ==
  IF ~Truth(c, D) THEN List(dmp_zero(v))
  ELSE IF v + 1 <= 0 THEN Scalar(c)
  ELSE List(Wrap(c, v + 1))

dup_nth(p, n, D) ==
  IF n < 0 THEN Raise("IndexError")
  ELSE IF n >= Len(p) THEN Return(Scalar(KZero(D)))
  ELSE Return(Scalar(PyIndex(p, dup_degree(p) - n)))

dmp_nth(p, n, v, D) ==
  IF n < 0 THEN Raise("IndexError")
  ELSE IF n >= Len(p) THEN Return(List(dmp_zero(v - 1)))
  ELSE LET c == PyIndex(p, dmp_degree(p, v) - n)
       IN  Return(IF v = 0 THEN Scalar(c) ELSE List(c))

Ground ==
  /\ pc = "start"
  /\ \E c \in Coefs, v \in -1..MaxU :
       /\ arg' = [c |-> c, v |-> v]
       /\ out' = Return(dmp_ground(c, v, K))
  /\ pc' = "ground"
  /\ UNCHANGED <<K, u, f, mid>>

Zeros ==
  /\ pc = "start"
  /\ \E n \in 0..MaxIndex, v \in -1..MaxU :
       /\ arg' = [n |-> n, v |-> v]
       /\ out' = Return(dmp_zeros(n, v, K))
  /\ pc' = "zeros"
  /\ UNCHANGED <<K, u, f, mid>>

Nth ==
  /\ pc = "start"
  /\ \E n \in -1..MaxIndex :
       /\ arg' = [n |-> n]
       /\ mid' = IF u = 0 THEN dup_nth(f, n, K) ELSE <<>>
       /\ out' = dmp_nth(f, n, u, K)
  /\ pc' = "nth"
  /\ UNCHANGED <<K, u, f>>

NextGround == Ground \/ Zeros \/ Nth

SpecGround == InitPoly /\ [][NextGround]_vars

\* C7: a value of level -1 is an element of K, never a list:
\* dmp_ground(c, -1) is c for every c, K.zero included; every element of
\* dmp_zeros(n, -1, K) is K.zero; dmp_nth(f, n, 0, K) returns what
\* dup_nth(f, n, K) returns for every n >= 0, K.zero above the degree.
C7_GroundIsScalar ==
  /\ pc = "ground" /\ arg.v = -1 =>
       ~out.val.list /\ out.val.val = <<arg.c>>
  /\ pc = "zeros" /\ arg.v = -1 =>
       out.val = [i \in 1..arg.n |-> KZero(K)]
  /\ pc = "nth" /\ u = 0 /\ arg.n >= 0 =>
       /\ out.exc = "none" /\ mid.exc = "none"
       /\ out.val.list = mid.val.list
       /\ out.val.val = mid.val.val
       /\ (arg.n > dup_degree(f) => ~out.val.list /\ out.val.val = <<KZero(K)>>)

\* the ground value of K.zero at level -1 has been asked for, and is a list
C7_Witness ==
  /\ pc = "ground"
  /\ arg = [c |-> 0, v |-> -1]
  /\ out = Return(List(<<>>))

\* what does hold: a non-zero c is returned as it is, the zeros of level -1
\* are K.zero, and up to the degree dmp_nth at level 0 is dup_nth; in the
\* other cases a list comes back
C7_GroundNonZero ==
  /\ pc = "ground" /\ arg.v = -1 /\ arg.c # KZero(K) =>
       ~out.val.list /\ out.val.val = <<arg.c>>
  /\ pc = "ground" /\ arg.v = -1 /\ arg.c = KZero(K) => out.val = List(<<>>)
  /\ pc = "zeros" /\ arg.v = -1 =>
       out.val = [i \in 1..arg.n |-> KZero(K)]
  /\ pc = "nth" /\ u = 0 /\ arg.n >= 0 /\ arg.n <= dup_degree(f) =>
       /\ out.exc = "none" /\ mid.exc = "none"
       /\ ~out.val.list /\ ~mid.val.list
       /\ out.val.val = mid.val.val
  /\ pc = "nth" /\ u = 0 /\ arg.n > dup_degree(f) =>
       /\ mid = Return(Scalar(KZero(K)))
       /\ out = Return(List(<<>>))

(***************************************************************************)
(* Validation of a nested list.                                            *)
(* The argument is any nesting of lists over leaves, held as a tree: a     *)
(* Node is a list of trees, a Leaf an element of ZZ, an OtherLeaf a value  *)
(* of another type.                                                        *)
(***************************************************************************)
MaxNodes == 5

Leaf(c) == [type |-> "int", leaf |-> c, kids |-> <<>>]

OtherLeaf(c) == [type |-> "other", leaf |-> c, kids |-> <<>>]

Node(s) == [type |-> "list", leaf |-> 0, kids |-> s]

\* type(g) is list
IsList(g) == g.type = "list"

\* no domain given: K=None
NoDomain == [gens |-> -1]

\* K.of_type(g) for a leaf g
of_type(g, D) == g.type = "int"

\* mutant: an empty list counts as a scalar
RECURSIVE rec_validate_flat(_, _, _)
rec_validate_flat(g, i, D) ==
  IF ~IsList(g)
  THEN IF D # NoDomain /\ ~of_type(g, D) THEN Raise("TypeError")
       ELSE Return({i - 1})
  ELSE IF Len(g.kids) = 0 THEN Return({i - 1})
  ELSE LET r   == [n \in 1..Len(g.kids) |-> rec_validate_flat(g.kids[n], i + 1, D)]
           bad == {n \in 1..Len(g.kids) : r[n].exc # "none"}
       IN  IF bad # {} THEN Raise(r[Min(bad)].exc)
           ELSE Return(UNION {r[n].val : n \in 1..Len(g.kids)})

RECURSIVE rec_validate(_, _, _)
rec_validate(g, i, D) ==
  IF ~IsList(g)
  THEN IF D # NoDomain /\ ~of_type(g, D) THEN Raise("TypeError")
       ELSE Return({i - 1})
  ELSE IF Len(g.kids) = 0 THEN Return({i})
  ELSE LET r   == [n \in 1..Len(g.kids) |-> rec_validate(g.kids[n], i + 1, D)]
           bad == {n \in 1..Len(g.kids) : r[n].exc # "none"}
       IN  IF bad # {} THEN Raise(r[Min(bad)].exc)
           ELSE Return(UNION {r[n].val : n \in 1..Len(g.kids)})

RECURSIVE rec_strip(_, _)
rec_strip(g, v) ==
  IF v = 0 THEN dup_strip([n \in 1..Len(g.kids) |-> g.kids[n].leaf], ZZ)
  ELSE dmp_strip([n \in 1..Len(g.kids) |-> rec_strip(g.kids[n], v - 1)], v, ZZ)

dmp_validate(p, D) ==
  LET levels == rec_validate(p, 0, D)
  IN  IF levels.exc # "none" THEN levels
      ELSE IF Cardinality(levels.val) = 1
      THEN LET v == CHOOSE x \in levels.val : TRUE
           IN  Return(<<rec_strip(p, v), v>>)
      ELSE Raise("ValueError")

Leaves == {Leaf(0), Leaf(1), OtherLeaf(1)}

\* the trees of exactly n nodes, and the lists of trees of n nodes in all
RECURSIVE TreeExact(_), ForestExact(_)
TreeExact(n) ==
  (IF n = 1 THEN Leaves ELSE {}) \cup {Node(s) : s \in ForestExact(n - 1)}

ForestExact(n) ==
  IF n = 0 THEN {<<>>}
  ELSE UNION {{<<x[1]>> \o x[2] : x \in TreeExact(k) \X ForestExact(n - k)} :
                k \in 1..n}

InitTree ==
  /\ K = ZZ
  /\ u = 0
  /\ \E n \in 0..MaxNodes : f \in {Node(s) : s \in ForestExact(n)}
  /\ pc = "start"
  /\ arg = <<>>
  /\ mid = <<>>
  /\ out = <<>>

\* every leaf of g is an element of ZZ
RECURSIVE AllInZZ(_)
AllInZZ(g) ==
  IF IsList(g) THEN \A n \in 1..Len(g.kids) : AllInZZ(g.kids[n]) ELSE g.type = "int"

Validate ==
  /\ pc = "start"
  /\ \E D \in {NoDomain, ZZ} :
       /\ D = NoDomain => AllInZZ(f)
       /\ arg' = [K |-> D]
       /\ out' = dmp_validate(f, D)
  /\ pc' = "validate"
  /\ UNCHANGED <<K, u, f, mid>>

NextValidate == Validate

SpecValidate == InitTree /\ [][NextValidate]_vars

\* the depths at which the branches of g end, g being at depth d: a leaf ends
\* at d, an empty list as a list of leaves would, at d + 1
RECURSIVE EndDepths(_, _)
EndDepths(g, d) ==
  IF ~IsList(g) THEN {d}
  ELSE IF Len(g.kids) = 0 THEN {d + 1}
  ELSE UNION {EndDepths(g.kids[n], d + 1) : n \in 1..Len(g.kids)}

\* the nested list g stands for, every leaf being in ZZ
RECURSIVE Plain(_)
Plain(g) == IF IsList(g) THEN [n \in 1..Len(g.kids) |-> Plain(g.kids[n])] ELSE g.leaf

\* C11: dmp_validate(f) raises the structure error (ValueError) exactly when
\* two branches of f end at different depths; otherwise it returns (g, u)
\* with u the common level, g normalized at every level and with the sparse
\* map of f.  With K given, a leaf that fails K.of_type makes it raise
\* TypeError instead.
C11_Validate ==
  pc = "validate" =>
    IF arg.K # NoDomain /\ ~AllInZZ(f) THEN out.exc = "TypeError"
    ELSE IF Cardinality(EndDepths(f, 0)) > 1 THEN out.exc = "ValueError"
    ELSE LET v == (CHOOSE d \in EndDepths(f, 0) : TRUE) - 1
         IN  /\ out.exc = "none"
             /\ out.val[2] = v
             /\ Normalized(out.val[1], v, ZZ)
             /\ dmp_to_dict(out.val[1], v, ZZ, FALSE) =
                  dmp_to_dict(Plain(f), v, ZZ, FALSE)

\* [[[0], [1]]] has been validated: the zero of the inner level was dropped
C11_Witness ==
  /\ pc = "validate"
  /\ f = Node(<<Node(<<Node(<<Leaf(0)>>), Node(<<Leaf(1)>>)>>)>>)
  /\ out = Return(<< << << <<1>> >> >>, 2 >>)

(***************************************************************************)
(* Degree in a variable, ground coefficients, multivariate inflation, and  *)
(* the arguments that are out of range.                                    *)
(***************************************************************************)
\* mutant: only the leading entry is followed
RECURSIVE rec_degree_in_leading(_, _, _, _)
rec_degree_in_leading(g, v, i, j) ==
  IF i = j THEN dmp_degree(g, v)
  ELSE rec_degree_in_leading(g[1], v - 1, i + 1, j)

\* g is not empty on the way down a normal form, so max() has an argument
RECURSIVE rec_degree_in(_, _, _, _)
rec_degree_in(g, v, i, j) ==
  IF i = j THEN dmp_degree(g, v)
  ELSE Max({rec_degree_in(g[k], v - 1, i + 1, j) : k \in 1..Len(g)})

dmp_degree_in(p, j, v) ==
  IF j = 0 THEN Return(dmp_degree(p, v))
  ELSE IF j < 0 \/ j > v THEN Raise("IndexError")
  ELSE Return(rec_degree_in(p, v, 0, j))

\* the loop of dmp_ground_nth from entry k of N on
RECURSIVE GroundNthLoop(_, _, _, _, _)
GroundNthLoop(p, N, k, v, D) ==
  IF k > Len(N) THEN Return(p)
  ELSE IF N[k] < 0 THEN Raise("IndexError")
  ELSE IF N[k] >= Len(p) THEN Return(KZero(D))
  ELSE GroundNthLoop(PyIndex(p, dmp_degree(p, v) - N[k]), N, k + 1, v - 1, D)

dmp_ground_nth(p, N, v, D) == GroundNthLoop(p, N, 1, v, D)

\* mutant: M[i] zeros, not M[i] - 1, between two entries
InflateListWide(g, m, w) ==
  [k \in 1..((Len(g) - 1) * (m + 1) + 1) |->
     IF (k - 1) % (m + 1) = 0 THEN g[((k - 1) \div (m + 1)) + 1] ELSE dmp_zero(w)]

\* result = [g[0]]; then M[i] - 1 zeros and the next entry, for every entry
InflateList(g, m, w) ==
  [k \in 1..((Len(g) - 1) * m + 1) |->
     IF (k - 1) % m = 0 THEN g[((k - 1) \div m) + 1] ELSE dmp_zero(w)]

RECURSIVE rec_inflate(_, _, _, _, _)
rec_inflate(g, M, v, i, D) ==
  IF v = 0 THEN dup_inflate(g, M[i + 1], D)
  ELSE IF M[i + 1] <= 0 THEN Raise("IndexError")
  ELSE LET r   == [k \in 1..Len(g) |-> rec_inflate(g[k], M, v - 1, i + 1, D)]
           bad == {k \in 1..Len(g) : r[k].exc # "none"}
       IN  IF bad # {} THEN Raise(r[Min(bad)].exc)
           ELSE Return(InflateList([k \in 1..Len(g) |-> r[k].val], M[i + 1], v - 1))

dmp_inflate(p, M, v, D) ==
  IF v = 0 THEN dup_inflate(p, M[1], D)
  ELSE IF \A k \in 1..Len(M) : M[k] = 1 THEN Return(p)
  ELSE rec_inflate(p, M, v, 0, D)

\* the coefficient indices tried
Indices == -1..MaxU

DegreeIn ==
  /\ pc = "start"
  /\ \E j \in -1..(u + 1) :
       /\ arg' = [j |-> j]
       /\ out' = dmp_degree_in(f, j, u)
  /\ pc' = "degree_in"
  /\ UNCHANGED <<K, u, f, mid>>

GroundNth ==
  /\ pc = "start"
  /\ \E N \in [1..(u + 1) -> Indices] :
       /\ arg' = [N |-> N]
       /\ out' = dmp_ground_nth(f, N, u, K)
  /\ pc' = "ground_nth"
  /\ UNCHANGED <<K, u, f, mid>>

Inflate ==
  /\ pc = "start"
  /\ \E M \in [1..(u + 1) -> -1..MaxFactor] :
       /\ arg' = [M |-> M]
       /\ out' = dmp_inflate(f, M, u, K)
  /\ pc' = "inflate"
  /\ UNCHANGED <<K, u, f, mid>>

NextIndex == DegreeIn \/ SliceIn \/ Swap \/ Nth \/ GroundNth \/ Inflate

SpecIndex == InitPoly /\ [][NextIndex]_vars

\* the call raised IndexError if bad, and returned if not
RaisedIff(r, bad) == r.exc = (IF bad THEN "IndexError" ELSE "none")

\* C12: dmp_degree_in, dmp_slice_in and dmp_swap raise IndexError exactly
\* when a variable index is outside [0, u]; dup_nth, dmp_nth and
\* dmp_ground_nth exactly when a coefficient index is negative; dup_inflate
\* exactly when m <= 0 and dmp_inflate exactly when some entry of M is <= 0.
\* For every normalized f and in-range argument the call returns, raising
\* nothing.
C12_IndexErrors ==
  /\ pc = "degree_in" => RaisedIff(out, arg.j \notin 0..u)
  /\ pc = "slice_in" => RaisedIff(out, arg.j \notin 0..u)
  /\ pc = "swap" => RaisedIff(mid, arg.i \notin 0..u \/ arg.j \notin 0..u)
  /\ pc = "nth" => RaisedIff(out, arg.n < 0)
  /\ pc = "nth" /\ u = 0 => RaisedIff(mid, arg.n < 0)
  /\ pc = "ground_nth" => RaisedIff(out, \E k \in 1..(u + 1) : arg.N[k] < 0)
  /\ pc = "inflate" => RaisedIff(out, \E k \in 1..(u + 1) : arg.M[k] <= 0)

\* the variables 1 and 0 of a constant in two variables, both in range, have
\* been exchanged, and the call raised ValueError
C12_Witness ==
  /\ pc = "swap"
  /\ u = 1
  /\ f = << <<1>> >>
  /\ arg = [i |-> 1, j |-> 0]
  /\ mid.exc = "ValueError"

\* what does hold: the same, but dmp_swap with in-range i > j raises
\* ValueError unless f is zero, and dmp_ground_nth returns K.zero at the
\* first index past the degree without looking at the later ones
C12_IndexErrorsButSwap ==
  /\ pc = "degree_in" => RaisedIff(out, arg.j \notin 0..u)
  /\ pc = "slice_in" => RaisedIff(out, arg.j \notin 0..u)
  /\ pc = "swap" /\ (arg.i <= arg.j \/ arg.i > u \/ arg.j < 0 \/ dmp_zero_p(f, u)) =>
       RaisedIff(mid, arg.i \notin 0..u \/ arg.j \notin 0..u)
  /\ pc = "swap" /\ arg.i > arg.j /\ arg.i <= u /\ arg.j >= 0 /\ ~dmp_zero_p(f, u) =>
       mid.exc = "ValueError"
  /\ pc = "nth" => RaisedIff(out, arg.n < 0)
  /\ pc = "nth" /\ u = 0 => RaisedIff(mid, arg.n < 0)
  /\ pc = "ground_nth" => out.exc \in {"none", "IndexError"}
  /\ pc = "ground_nth" /\ out.exc = "IndexError" => \E k \in 1..(u + 1) : arg.N[k] < 0
  /\ pc = "ground_nth" /\ (\A k \in 1..(u + 1) : arg.N[k] >= 0) => out.exc = "none"
  /\ pc = "inflate" => RaisedIff(out, \E k \in 1..(u + 1) : arg.M[k] <= 0)

(***************************************************************************)
(* Stripping twice.                                                        *)
(***************************************************************************)
\* the tree g is a list nested v levels deep over elements of ZZ
RECURSIVE FitsLevel(_, _)
FitsLevel(g, v) ==
  /\ IsList(g)
  /\ \A n \in 1..Len(g.kids) :
       IF v = 0 THEN g.kids[n].type = "int" ELSE FitsLevel(g.kids[n], v - 1)

\* the lists of level v, normalized or not
RawPolys(v) ==
  {Plain(g) : g \in {t \in UNION {{Node(s) : s \in ForestExact(n)} : n \in 0..MaxNodes} :
                       FitsLevel(t, v)}}

InitRaw ==
  /\ K = ZZ
  /\ u \in 0..MaxU
  /\ f \in RawPolys(u)
  /\ pc = "start"
  /\ arg = <<>>
  /\ mid = <<>>
  /\ out = <<>>

Strip ==
  /\ pc = "start"
  /\ mid' = dmp_strip(f, u, K)
  /\ pc' = "strip"
  /\ UNCHANGED <<K, u, f, arg, out>>

StripAgain ==
  /\ pc = "strip"
  /\ out' = dmp_strip(mid, u, K)
  /\ pc' = "strip_again"
  /\ UNCHANGED <<K, u, f, arg, mid>>

NextStrip == Strip \/ StripAgain

SpecStrip == InitRaw /\ [][NextStrip]_vars

\* every entry of p is zero: K.zero at level 0, dmp_zero(v - 1) above
OnlyZeros(p, v) ==
  \A i \in 1..Len(p) : IF v = 0 THEN p[i] = 0 ELSE dmp_zero_p(p[i], v - 1)

\* C13: for every list f, normalized or not, stripping the stripped f changes
\* nothing, at level 0 (dup_strip) and at every level u >= 1 (dmp_strip),
\* leading zero entries, only zero entries and the empty list included; a
\* list of zero entries only strips to dmp_zero(u).
C13_StripIdempotent ==
  /\ pc = "strip_again" => out = mid
  /\ pc \in {"strip", "strip_again"} /\ OnlyZeros(f, u) => mid = dmp_zero(u)

\* two zeros of level 1 in front of a polynomial of level 1 have been
\* stripped, twice
C13_Witness ==
  /\ pc = "strip_again"
  /\ u = 2
  /\ f = << << <<>> >>, << <<1>> >> >>
  /\ mid = << << <<1>> >> >>
  /\ out = mid

(***************************************************************************)
(* Joint deflation of a tuple of polynomials.                              *)
(***************************************************************************)
\* the loop of dup_multi_deflate from entry k of polys on, G so far
RECURSIVE MultiDeflateLoop(_, _, _, _)
MultiDeflateLoop(polys, k, G, D) ==
  IF k > Len(polys)
  THEN IF G = 0 /\ Len(polys) > 0 THEN Raise("ValueError")
       ELSE Return(<<G, [i \in 1..Len(polys) |-> PyStride(polys[i], G)]>>)
  ELSE IF dup_degree(polys[k]) <= 0 THEN Return(<<1, polys>>)
  ELSE LET g == DeflateLoop(polys[k], 0, 0, D)
       IN  IF g = 1 THEN Return(<<1, polys>>)
           ELSE MultiDeflateLoop(polys, k + 1, igcd(G, g), D)

dup_multi_deflate(polys, D) == MultiDeflateLoop(polys, 1, 0, D)

\* igcd folded over a set of exponents, from 0
RECURSIVE GcdOver(_)
GcdOver(S) ==
  IF S = {} THEN 0
  ELSE LET m == CHOOSE x \in S : TRUE IN igcd(GcdOver(S \ {m}), m)

\* the exponent tuple A divided by B, entry by entry
DivMonom(A, B) == [i \in 1..Len(A) |-> A[i] \div B[i]]

\* the sparse map F with every exponent tuple divided by B
DivTerms(F, B) ==
  [N \in {DivMonom(A, B) : A \in DOMAIN F} |->
     F[CHOOSE A \in DOMAIN F : DivMonom(A, B) = N]]

dmp_multi_deflate(polys, v, D) ==
  IF v = 0
  THEN LET r == dup_multi_deflate(polys, D)
       IN  IF r.exc # "none" THEN r ELSE Return(<< <<r.val[1]>>, r.val[2] >>)
  ELSE LET F == [k \in 1..Len(polys) |-> dmp_to_dict(polys[k], v, D, FALSE)]
           used == {k \in 1..Len(polys) : ~dmp_zero_p(polys[k], v)}
           B0 == [i \in 1..(v + 1) |->
                    GcdOver(UNION {{M[i] : M \in DOMAIN F[k]} : k \in used})]
           B  == [i \in 1..(v + 1) |-> IF B0[i] = 0 THEN 1 ELSE B0[i]]
           H  == [k \in 1..Len(polys) |-> dmp_from_dict(DivTerms(F[k], B), v, D)]
           bad == {k \in 1..Len(polys) : H[k].exc # "none"}
       IN  IF \A i \in 1..(v + 1) : B[i] = 1 THEN Return(<<B, polys>>)
           ELSE IF bad # {} THEN Raise(H[Min(bad)].exc)
           ELSE Return(<<B, [k \in 1..Len(polys) |-> H[k].val]>>)

MultiDeflate ==
  /\ pc = "start"
  /\ \E polys \in {<<f>>} \cup {<<f, g>> : g \in Polys(u)} :
       /\ arg' = [polys |-> polys]
       /\ out' = dmp_multi_deflate(polys, u, K)
  /\ pc' = "multi_deflate"
  /\ UNCHANGED <<K, u, f, mid>>

NextMulti == MultiDeflate

SpecMulti == InitPoly /\ [][NextMulti]_vars

\* the gcd of a set of exponents, 1 when they are all 0
ExpGcd(S) == IF S \subseteq {0} THEN 1 ELSE SetGcd(S)

\* the gcd of the exponents of variable i over the terms of all the polys
JointGcd(polys, i, v, D) ==
  ExpGcd(UNION {{M[i] : M \in DOMAIN dmp_to_dict(polys[k], v, D, FALSE)} :
                  k \in 1..Len(polys)})

\* (B, H) is the joint deflation of polys
JointlyDeflated(polys, B, H, v, D) ==
  /\ B = [i \in 1..(v + 1) |-> JointGcd(polys, i, v, D)]
  /\ Len(H) = Len(polys)
  /\ \A k \in 1..Len(polys) :
       /\ Normalized(H[k], v, D)
       /\ dmp_to_dict(H[k], v, D, FALSE) =
            DivTerms(dmp_to_dict(polys[k], v, D, FALSE), B)

\* C14: for every u >= 0 (u = 0 goes through dup_multi_deflate) and every
\* non-empty tuple of normalized polynomials of level u, constants and zeros
\* allowed, dmp_multi_deflate(polys, u, K) returns (B, H) with B[i] the gcd of
\* the exponents of variable i over all terms of all the polynomials (1 when
\* that is 0) and H[k] the polynomial polys[k] with every exponent divided
\* by B.
C14_MultiDeflate ==
  pc = "multi_deflate" =>
    /\ out.exc = "none"
    /\ JointlyDeflated(arg.polys, out.val[1], out.val[2], u, K)

\* x**2 + 1 and the constant 1 have been deflated together: nothing was
\* divided, though every exponent in use is even
C14_Witness ==
  /\ pc = "multi_deflate"
  /\ u = 0
  /\ arg.polys = << <<1, 0, 1>>, <<1>> >>
  /\ out = Return(<< <<1>>, << <<1, 0, 1>>, <<1>> >> >>)

\* what does hold: the same, above level 0, and at level 0 when no
\* polynomial of the tuple is a constant or zero; with one, at level 0,
\* nothing is deflated
C14_MultiDeflateNoConstant ==
  /\ pc = "multi_deflate" /\
       (u > 0 \/ \A k \in 1..Len(arg.polys) : dup_degree(arg.polys[k]) > 0) =>
         /\ out.exc = "none"
         /\ JointlyDeflated(arg.polys, out.val[1], out.val[2], u, K)
  /\ pc = "multi_deflate" /\ u = 0 /\
       (\E k \in 1..Len(arg.polys) : dup_degree(arg.polys[k]) <= 0) =>
         out = Return(<< <<1>>, arg.polys >>)

(***************************************************************************)
(* Multivariate deflation, and inflating back.                             *)
(***************************************************************************)
dmp_deflate(p, v, D) ==
  IF dmp_zero_p(p, v) THEN Return(<<[i \in 1..(v + 1) |-> 1], p>>)
  ELSE LET F  == dmp_to_dict(p, v, D, FALSE)
           B0 == [i \in 1..(v + 1) |-> GcdOver({M[i] : M \in DOMAIN F})]
           B  == [i \in 1..(v + 1) |-> IF B0[i] = 0 THEN 1 ELSE B0[i]]
           r  == dmp_from_dict(DivTerms(F, B), v, D)
       IN  IF \A i \in 1..(v + 1) : B[i] = 1 THEN Return(<<B, p>>)
           ELSE IF r.exc # "none" THEN r
           ELSE Return(<<B, r.val>>)

Deflate ==
  /\ pc = "start"
  /\ mid' = dmp_deflate(f, u, K)
  /\ pc' = "deflate"
  /\ UNCHANGED <<K, u, f, arg, out>>

InflateBack ==
  /\ pc = "deflate"
  /\ mid.exc = "none"
  /\ out' = dmp_inflate(mid.val[2], mid.val[1], u, K)
  /\ pc' = "inflate_back"
  /\ UNCHANGED <<K, u, f, arg, mid>>

DeflateAgain ==
  /\ pc = "deflate"
  /\ mid.exc = "none"
  /\ out' = dmp_deflate(mid.val[2], u, K)
  /\ pc' = "deflate_again"
  /\ UNCHANGED <<K, u, f, arg, mid>>

NextDmpDeflate == Deflate \/ InflateBack \/ DeflateAgain

SpecDmpDeflate == InitPoly /\ [][NextDmpDeflate]_vars

\* C15: for every u >= 1 and normalized f of level u, dmp_deflate(f, u, K)
\* returns (B, h) with B of length u + 1, B[i] >= 1 the gcd of the exponents
\* of variable i over the terms of f (1 if that is 0 or f is zero) and h the
\* polynomial f with every exponent divided by B; dmp_inflate(h, B, u, K)
\* returns f, and deflating h again returns the vector of ones.
C15_DmpDeflateInflate ==
  /\ pc \in {"deflate", "inflate_back", "deflate_again"} /\ u >= 1 =>
       /\ mid.exc = "none"
       /\ Len(mid.val[1]) = u + 1
       /\ \A i \in 1..(u + 1) : mid.val[1][i] >= 1
       /\ JointlyDeflated(<<f>>, mid.val[1], <<mid.val[2]>>, u, K)
  /\ pc = "inflate_back" /\ u >= 1 => out.exc = "none" /\ out.val = f
  /\ pc = "deflate_again" /\ u >= 1 =>
       out.exc = "none" /\ out.val[1] = [i \in 1..(u + 1) |-> 1]

\* x0**2 * x2 + 1 in three variables has been deflated to x0 * x2 + 1 and
\* inflated back
C15_Witness ==
  /\ pc = "inflate_back"
  /\ u = 2
  /\ f = << << <<1, 0>> >>, << <<>> >>, << <<1>> >> >>
  /\ mid = Return(<< <<2, 1, 1>>, << << <<1, 0>> >>, << <<1>> >> >> >>)
  /\ out = Return(f)

(***************************************************************************)
(* The gcd of the terms.                                                   *)
(***************************************************************************)
\* monomial_min(*S): the entry by entry minimum of the exponent tuples of S
monomial_min(S) ==
  LET n == Len(CHOOSE M \in S : TRUE)
  IN  [i \in 1..n |-> Min({M[i] : M \in S})]

\* monomial_div(A, B) for B dividing A
monomial_div(A, B) == [i \in 1..Len(A) |-> A[i] - B[i]]

RECURSIVE dmp_ground_TC(_, _, _)
dmp_ground_TC(p, v, D) ==
  IF Len(p) = 0 THEN KZero(D)
  ELSE IF v = 0 THEN p[Len(p)]
  ELSE dmp_ground_TC(p[Len(p)], v - 1, D)

\* mutant: the gcd is returned, but not divided out
dmp_terms_gcd_kept(p, v, D) ==
  IF Truth(dmp_ground_TC(p, v, D), D) \/ dmp_zero_p(p, v)
  THEN Return(<<[i \in 1..(v + 1) |-> 0], p>>)
  ELSE Return(<<monomial_min(DOMAIN dmp_to_dict(p, v, D, FALSE)), p>>)

dmp_terms_gcd(p, v, D) ==
  IF Truth(dmp_ground_TC(p, v, D), D) \/ dmp_zero_p(p, v)
  THEN Return(<<[i \in 1..(v + 1) |-> 0], p>>)
  ELSE LET F == dmp_to_dict(p, v, D, FALSE)
           G == monomial_min(DOMAIN F)
           h == [N \in {monomial_div(monom, G) : monom \in DOMAIN F} |->
                   F[CHOOSE monom \in DOMAIN F : monomial_div(monom, G) = N]]
           r == dmp_from_dict(h, v, D)
       IN  IF \A i \in 1..(v + 1) : G[i] = 0 THEN Return(<<G, p>>)
           ELSE IF r.exc # "none" THEN r
           ELSE Return(<<G, r.val>>)

TermsGcd ==
  /\ pc = "start"
  /\ mid' = IF u = 0 THEN dup_terms_gcd(f, K) ELSE <<>>
  /\ out' = dmp_terms_gcd(f, u, K)
  /\ pc' = "terms_gcd"
  /\ UNCHANGED <<K, u, f, arg>>

NextTermsGcd == TermsGcd

SpecTermsGcd == InitPoly /\ [][NextTermsGcd]_vars

\* the smallest exponent of variable i (counted from 1) among the keys of F
MinExp(F, i) == Min({M[i] : M \in DOMAIN F})

\* the sparse map F with G subtracted from every exponent tuple
Shifted(F, G) ==
  [N \in {[i \in 1..Len(G) |-> M[i] - G[i]] : M \in DOMAIN F} |->
     F[[i \in 1..Len(G) |-> N[i] + G[i]]]]

\* C16: for every u >= 0 and normalized nonzero f of level u,
\* dmp_terms_gcd(f, u, K) returns (G, g) with G the entry by entry minimum of
\* the exponent tuples of the terms of f, g the polynomial f with G
\* subtracted from every exponent tuple, coefficients unchanged, so that the
\* minimum for g is the zero vector; dup_terms_gcd(f, K) returns the same at
\* u = 0, with a scalar for the 1-tuple.  For the zero polynomial the zero
\* vector and f come back.
C16_TermsGcd ==
  pc = "terms_gcd" =>
    LET F == dmp_to_dict(f, u, K, FALSE)
        G == out.val[1]
        g == out.val[2]
        H == dmp_to_dict(g, u, K, FALSE)
    IN  /\ out.exc = "none"
        /\ Len(G) = u + 1
        /\ IF DOMAIN F = {}
           THEN G = [i \in 1..(u + 1) |-> 0] /\ g = f
           ELSE /\ G = [i \in 1..(u + 1) |-> MinExp(F, i)]
                /\ Normalized(g, u, K)
                /\ H = Shifted(F, G)
                /\ \A i \in 1..(u + 1) : MinExp(H, i) = 0
        /\ u = 0 => mid = <<G[1], g>>

\* x0 * x1 + x0 has lost the factor x0
C16_Witness ==
  /\ pc = "terms_gcd"
  /\ u = 1
  /\ f = << <<1, 1>>, <<>> >>
  /\ out = Return(<< <<1, 0>>, << <<1, 1>> >> >>)

(***************************************************************************)
(* The degrees in all variables.                                           *)
(***************************************************************************)
RECURSIVE rec_degree_list(_, _, _, _), DegreeListLoop(_, _, _, _, _)
rec_degree_list(g, v, i, degs) ==
  LET d == [degs EXCEPT ![i + 1] = Max({degs[i + 1], dmp_degree(g, v)})]
  IN  IF v > 0 THEN DegreeListLoop(g, 1, v - 1, i + 1, d) ELSE d

\* for c in g: _rec_degree_list(c, v, i, degs), from entry k of g on
DegreeListLoop(g, k, v, i, degs) ==
  IF k > Len(g) THEN degs
  ELSE DegreeListLoop(g, k + 1, v, i, rec_degree_list(g[k], v, i, degs))

dmp_degree_list(p, v) == rec_degree_list(p, v, 0, [i \in 1..(v + 1) |-> -1])

Degrees ==
  /\ pc = "start"
  /\ \E j \in 0..u :
       /\ arg' = [j |-> j]
       /\ out' = dmp_degree_in(f, j, u)
  /\ mid' = dmp_degree_list(f, u)
  /\ pc' = "degrees"
  /\ UNCHANGED <<K, u, f>>

NextDegrees == Degrees

SpecDegrees == InitPoly /\ [][NextDegrees]_vars

\* C17: for every u >= 0, normalized f of level u and 0 <= j <= u,
\* dmp_degree_in(f, j, u) is entry j of dmp_degree_list(f, u); for nonzero f
\* it is the largest exponent of variable j over all keys of
\* dmp_to_dict(f, u), whatever the branch; for the zero polynomial every
\* entry is -1.
C17_Degrees ==
  pc = "degrees" =>
    LET F == dmp_to_dict(f, u, K, FALSE)
    IN  /\ out.exc = "none"
        /\ Len(mid) = u + 1
        /\ out.val = mid[arg.j + 1]
        /\ \A i \in 1..(u + 1) :
             mid[i] = IF DOMAIN F = {} THEN -1 ELSE Max({M[i] : M \in DOMAIN F})

\* the degree in x1 of x0 + x1**2 is found off the leading path
C17_Witness ==
  /\ pc = "degrees"
  /\ u = 1
  /\ f = << <<1>>, <<1, 0, 0>> >>
  /\ arg.j = 1
  /\ out = Return(2)
  /\ mid = <<1, 2>>

(***************************************************************************)
(* The leading term and the list of terms.                                 *)
(***************************************************************************)
poly_LC(p, D) == IF Len(p) = 0 THEN KZero(D) ELSE p[1]

RECURSIVE dmp_ground_LC(_, _, _)
dmp_ground_LC(p, v, D) ==
  IF Len(p) = 0 THEN KZero(D)
  ELSE IF v = 0 THEN p[1]
  ELSE dmp_ground_LC(p[1], v - 1, D)

\* mutant: the last entry is followed, not the first
RECURSIVE TrueLTLoopLast(_, _, _, _)
TrueLTLoopLast(p, v, monom, D) ==
  IF v > 0 THEN TrueLTLoopLast(p[Len(p)], v - 1, monom \o <<Len(p) - 1>>, D)
  ELSE <<monom \o <<IF Len(p) = 0 THEN 0 ELSE Len(p) - 1>>, poly_LC(p, D)>>

\* the loop of dmp_true_LT with v levels to go, and what follows it
RECURSIVE TrueLTLoop(_, _, _, _)
TrueLTLoop(p, v, monom, D) ==
  IF v > 0 THEN TrueLTLoop(p[1], v - 1, monom \o <<Len(p) - 1>>, D)
  ELSE <<monom \o <<IF Len(p) = 0 THEN 0 ELSE Len(p) - 1>>, poly_LC(p, D)>>

dmp_true_LT(p, v, D) == TrueLTLoop(p, v, <<>>, D)

RECURSIVE rec_list_terms(_, _, _, _), ListTermsLoop(_, _, _, _, _, _)
rec_list_terms(g, v, monom, D) ==
  LET d == dmp_degree(g, v)
      kept(t) == Truth(t[2], D)
  IN  IF v = 0
      THEN SelectSeq([i \in 1..Len(g) |-> <<monom \o <<d - (i - 1)>>, g[i]>>], kept)
      ELSE ListTermsLoop(g, 1, v, monom, d, D)

\* for i, c in enumerate(g): terms.extend(...), from entry k of g on
ListTermsLoop(g, k, v, monom, d, D) ==
  IF k > Len(g) THEN <<>>
  ELSE rec_list_terms(g[k], v - 1, monom \o <<d - (k - 1)>>, D) \o
       ListTermsLoop(g, k + 1, v, monom, d, D)

\* with the default order=None
dmp_list_terms(p, v, D) ==
  LET terms == rec_list_terms(p, v, <<>>, D)
  IN  IF Len(terms) = 0 THEN << <<[i \in 1..(v + 1) |-> 0], KZero(D)>> >>
      ELSE terms

LeadingTerm ==
  /\ pc = "start"
  /\ mid' = dmp_list_terms(f, u, K)
  /\ out' = [LT |-> dmp_true_LT(f, u, K), LC |-> dmp_ground_LC(f, u, K)]
  /\ pc' = "true_LT"
  /\ UNCHANGED <<K, u, f, arg>>

NextLeading == LeadingTerm

SpecLeading == InitPoly /\ [][NextLeading]_vars

\* C18: for every u >= 0 and normalized nonzero f of level u,
\* dmp_true_LT(f, u, K) returns (M, c) with M the lexicographically largest
\* key of dmp_to_dict(f, u) and c its nonzero coefficient, which is
\* dmp_ground_LC(f, u, K); (M, c) is the first element of
\* dmp_list_terms(f, u, K), which lists every nonzero term once, in strictly
\* decreasing lexicographic order.  For the zero polynomial dmp_true_LT
\* returns the zero exponent tuple with K.zero.
C18_LeadingTerm ==
  pc = "true_LT" =>
    LET F == dmp_to_dict(f, u, K, FALSE)
    IN  IF DOMAIN F = {}
        THEN out.LT = <<[i \in 1..(u + 1) |-> 0], KZero(K)>>
        ELSE /\ out.LT[1] = TupleMax(DOMAIN F)
             /\ out.LT[2] = F[out.LT[1]]
             /\ out.LT[2] # KZero(K)
             /\ out.LT[2] = out.LC
             /\ mid[1] = out.LT
             /\ Len(mid) = Cardinality(DOMAIN F)
             /\ \A k \in 1..Len(mid) :
                  mid[k][1] \in DOMAIN F /\ mid[k][2] = F[mid[k][1]]
             /\ \A k \in 1..(Len(mid) - 1) : TupleLess(mid[k + 1][1], mid[k][1])

\* the leading term of x0 * x1 - 1 has been taken, and its terms listed
C18_Witness ==
  /\ pc = "true_LT"
  /\ u = 1
  /\ f = << <<1, 0>>, <<-1>> >>
  /\ out = [LT |-> << <<1, 1>>, 1 >>, LC |-> 1]
  /\ mid = << << <<1, 1>>, 1 >>, << <<0, 0>>, -1 >> >>

(***************************************************************************)
(* Random polynomials.  dup_random is a process: each call of             *)
(* random.randint(a, b) is a step that draws any integer of a..b.          *)
(***************************************************************************)
\* largest degree asked of dup_random
MaxN == 2
\* largest magnitude of the ends a, b of the range
MaxRange == 1

\* K.convert of a Python integer, in ZZ
K_convert(c, D) == c

\* mutant: the test looks at the last coefficient
dup_random_test_last(g, D) ==
  ~Truth(g[Len(g)], D)

\* while not f[0]
dup_random_test(g, D) ==
  ~Truth(g[1], D)

\* the call dup_random(n, a, b, K) with a <= b; mid keeps the first samples
InitRandom ==
  /\ K = ZZ
  /\ u = 0
  /\ f = <<>>
  /\ pc = "sample"
  /\ arg \in {r \in [n : 0..MaxN, a : -MaxRange..MaxRange, b : -MaxRange..MaxRange] :
               r.a <= r.b}
  /\ mid = <<>>
  /\ out = <<>>

\* one round of the list comprehension: f gets one more sample
Sample ==
  /\ pc = "sample"
  /\ Len(f) < arg.n + 1
  /\ \E c \in arg.a..arg.b :
       /\ f' = Append(f, K_convert(c, K))
       /\ mid' = Append(mid, K_convert(c, K))
  /\ pc' = IF Len(f) + 1 = arg.n + 1 THEN "while" ELSE "sample"
  /\ UNCHANGED <<K, u, arg, out>>

\* one round of the while loop: f[0] is drawn again
Resample ==
  /\ pc = "while"
  /\ dup_random_test(f, K)
  /\ \E c \in arg.a..arg.b : f' = [f EXCEPT ![1] = K_convert(c, K)]
  /\ UNCHANGED <<K, u, pc, arg, mid, out>>

\* a round of the while loop that draws a coefficient that is not zero
ResampleNonZero == Resample /\ Truth(f'[1], K)

\* the loop is left and f returned
ReturnRandom ==
  /\ pc = "while"
  /\ ~dup_random_test(f, K)
  /\ out' = Return(f)
  /\ pc' = "return"
  /\ UNCHANGED <<K, u, f, arg, mid>>

NextRandom == Sample \/ Resample \/ ReturnRandom

SpecRandom == InitRandom /\ [][NextRandom]_vars

\* the process keeps running, and the samples are fairly chosen: a value of
\* a..b that may be drawn at every round is drawn at some round
SpecRandomFair ==
  /\ SpecRandom
  /\ WF_vars(Sample)
  /\ WF_vars(ReturnRandom)
  /\ WF_vars(ResampleNonZero)

HasNonZero == \E c \in arg.a..arg.b : c # 0

\* what holds of the list when dup_random returns it
ReturnedRandom ==
  pc = "return" =>
    /\ out.exc = "none"
    /\ Len(out.val) = arg.n + 1
    /\ out.val[1] # 0
    /\ \A i \in 1..Len(out.val) : out.val[i] \in arg.a..arg.b
    /\ Len(mid) = arg.n + 1
    /\ \A i \in 2..Len(out.val) : out.val[i] = mid[i]

\* C19: for n >= 0 and a <= b, with fairly chosen samples,
\* dup_random(n, a, b, K) eventually returns whenever a..b holds an integer
\* that is not zero; the list it returns has length n + 1, a leading
\* coefficient that is not zero, every coefficient in a..b, and its n lower
\* coefficients are the ones first sampled (only f[0] is ever drawn again).
\* When a = b = 0 the loop never terminates.
C19_Random ==
  /\ []ReturnedRandom
  /\ [][pc = "while" => \A i \in 2..Len(f) : f'[i] = f[i]]_vars
  /\ (HasNonZero ~> pc = "return")
  /\ []((arg.a = 0 /\ arg.b = 0) => pc # "return")

\* dup_random(2, -1, 1, K) first drew [0, 0, 1], drew f[0] again and returned
\* [-1, 0, 1]
C19_Witness ==
  /\ pc = "return"
  /\ arg = [n |-> 2, a |-> -1, b |-> 1]
  /\ mid = <<0, 0, 1>>
  /\ out = Return(<<-1, 0, 1>>)

====
